---- MODULE Spec2Model ----
(***************************************************************************)
(* State-machine model of soscollector/sos_collector.py (SosCollector).    *)
(*                                                                         *)
(* The specifications share the variables below:                           *)
(*   SpecNodes  node-list construction: get_nodes() and reduce_node_list() *)
(*   Spec       collect(): connection loop, the worker pool running        *)
(*              _collect, the extra step, summary, archive and exit paths  *)
(*   FairSpec   Spec with every enabled thread eventually taking a step   *)
(*   SpecSetup  SosCollector(config): _load_clusters, _parse_options and   *)
(*              prep() up to configure_sos_cmd                             *)
(*   SpecArchive  create_cluster_archive(): create_sos_archive, cleanup    *)
(*                                                                         *)
(* Host names are sequences of tokens; "." and "," are the separator       *)
(* tokens that str.split('.') and str.split(',') act on.                   *)
(***************************************************************************)
EXTENDS Integers, Sequences, FiniteSets, TLC

VARIABLES
    config,           \* self.config (the keys the modelled code reads)
    master,           \* self.master (a SosNode): address, hostname, connected, local
    node_list,        \* self.node_list
    pc,               \* position of the main thread
    reduce_calls,     \* number of reduce_node_list() applications so far
    client_list,      \* self.client_list, as the clients' addresses
    client_retrieved, \* client.retrieved of client_list[k]
    report_num,       \* self.report_num (-1 while the attribute is unset)
    retrieved,        \* self.retrieved
    idx,              \* loop position of the main thread (connection loop, pool.map)
    work_queue,       \* ThreadPoolExecutor work queue: submitted, not yet started
    task,             \* task[k]: state of the _collect call for client_list[k]
    loaded,           \* loaded[k]: value of self.retrieved read by task k for "+= 1"
    extra_calls,      \* number of run_extra_cmd() invocations
    archive_calls,    \* number of create_sos_archive() invocations
    closed,           \* clients whose close_ssh_session() was called
    exit_status,      \* process exit status (-1 while running)
    interrupted,      \* a KeyboardInterrupt has been delivered to the main thread
    conn_failed,      \* nodes whose SosNode() raised or came back not connected
    clusters,         \* self.clusters: the loaded profiles, in load order
    probed,           \* the profiles whose check_enabled() was called, in call order
    error,            \* the message of _exit(), or the exception that ended the run
    sos_cmd,          \* self.config['sos_cmd'], as the options appended to it
    tmp_files,        \* the names os.listdir(config['tmp_dir']) returns
    members           \* the arcname of every tar.add() call, in call order

cfg_vars     == <<config, master>>
init_vars    == <<clusters, probed, error, sos_cmd>>
archive_vars == <<tmp_files, members>>
nodes_vars   == <<node_list, reduce_calls>>
collect_vars == <<client_list, client_retrieved, report_num, retrieved, idx,
                  work_queue, task, loaded, extra_calls, archive_calls, closed,
                  exit_status, interrupted, conn_failed>>
vars         == <<config, master, node_list, pc, reduce_calls, client_list,
                  client_retrieved, report_num, retrieved, idx, work_queue, task,
                  loaded, extra_calls, archive_calls, closed, exit_status,
                  interrupted, conn_failed, clusters, probed, error, sos_cmd,
                  tmp_files, members>>

----------------------------------------------------------------------------
(* Bounds *)

MaxLen       == 3   \* entries of a base node list (explicit or enumerated)
MaxReduce    == 2   \* applications of reduce_node_list() after get_nodes()
MaxNodes     == 2   \* entries of the node list collect() starts from
MaxThreads   == 2   \* largest config['threads'] tried

----------------------------------------------------------------------------
(* Host names *)

DOT      == "."
COMMA    == ","
Blank    == <<>>                    \* '' (falsy)
LOCALHOST == <<"localhost">>
H_SHORT  == <<"h">>
H_FULL   == <<"h", DOT, "x">>       \* the local host's canonical name
H_ALIAS  == <<"h", DOT, "a">>       \* the local host under a cluster alias
N_SHORT  == <<"n">>
M_ADDR   == <<"m">>                 \* a master's configured address
M_HOST   == <<"m", DOT, "x">>       \* the hostname that master reports
IP_LOCAL == <<"10">>                \* one of the run's own IP addresses

NodeNames == {Blank, H_SHORT, H_FULL, H_ALIAS, N_SHORT, M_ADDR, M_HOST, IP_LOCAL}

ToSet(s) == {s[i] : i \in DOMAIN s}

Count(s, x) == Cardinality({i \in DOMAIN s : s[i] = x})

SeqsUpTo(S, n) == UNION {[1..k -> S] : k \in 0..n}

\* all the lists a set can be turned into by list(set(...))
Orderings(S) ==
    {s \in [1..Cardinality(S) -> S] : \A i, j \in 1..Cardinality(S) : i # j => s[i] # s[j]}

\* ','.join(names)
RECURSIVE Join(_)
Join(names) ==
    IF names = <<>> THEN <<>>
    ELSE IF Len(names) = 1 THEN names[1]
    ELSE names[1] \o <<COMMA>> \o Join(Tail(names))

\* str.split(sep): cur is the piece being read, s the text still to read
RECURSIVE SplitFrom(_, _, _)
SplitFrom(s, sep, cur) ==
    IF s = <<>> THEN <<cur>>
    ELSE IF Head(s) = sep THEN <<cur>> \o SplitFrom(Tail(s), sep, <<>>)
    ELSE SplitFrom(Tail(s), sep, Append(cur, Head(s)))

Split(s, sep) == SplitFrom(s, sep, <<>>)

\* node.split('.')[0]
ShortName(n) == Split(n, DOT)[1]

\* list.remove(x): drops the first occurrence of x (x is in the list)
RemoveFirst(s, x) ==
    LET i == CHOOSE k \in DOMAIN s : s[k] = x /\ \A j \in 1..(k - 1) : s[j] # x
    IN  SubSeq(s, 1, i - 1) \o SubSeq(s, i + 1, Len(s))

\* "for n in lst: if n in S: lst.remove(n)": the list iterator keeps an index i
\* (1-based here) into the list that the body is shrinking
RECURSIVE RemoveWhileIterating(_, _, _)
RemoveWhileIterating(lst, i, S) ==
    IF i > Len(lst) THEN lst
    ELSE IF lst[i] \in S THEN RemoveWhileIterating(RemoveFirst(lst, lst[i]), i + 1, S)
    ELSE RemoveWhileIterating(lst, i + 1, S)

\* "for i in ips: if i in lst: lst.remove(i)"
RECURSIVE RemoveEach(_, _)
RemoveEach(lst, ips) ==
    IF ips = <<>> THEN lst
    ELSE RemoveEach(IF Head(ips) \in ToSet(lst) THEN RemoveFirst(lst, Head(ips)) ELSE lst,
                    Tail(ips))

----------------------------------------------------------------------------
(* SosCollector.__init__: the attributes set before any handler runs *)

NoTasks == <<>>

ConstructedCollectVars ==
    /\ client_list = <<>>
    /\ client_retrieved = <<>>
    /\ report_num = -1
    /\ retrieved = 0
    /\ idx = 0
    /\ work_queue = <<>>
    /\ task = NoTasks
    /\ loaded = <<>>
    /\ extra_calls = 0
    /\ archive_calls = 0
    /\ closed = {}
    /\ exit_status = -1
    /\ interrupted = FALSE
    /\ conn_failed = {}

\* the attributes and files that collect() and get_nodes() do not read
ConstructedOtherVars ==
    /\ clusters = <<>>
    /\ probed = <<>>
    /\ error = ""
    /\ sos_cmd = <<>>
    /\ tmp_files = {}
    /\ members = <<>>

\* close_all_connections(): close_ssh_session() on every client of client_list
close_all_connections(clients) == DOMAIN clients

----------------------------------------------------------------------------
(* Node-list construction: get_nodes_from_cluster, reduce_node_list, get_nodes *)

\* the cluster profile's _get_nodes(): a list, None, or an exception
EnumList(l) == [kind |-> "list", nodes |-> l]
EnumNone    == [kind |-> "none", nodes |-> <<>>]
EnumRaise   == [kind |-> "raise", nodes |-> <<>>]

\* get_nodes_from_cluster(): ok = FALSE is the _exit('') of the bare except
get_nodes_from_cluster(cfg) ==
    IF cfg.cluster = "none" \/ cfg.cluster_nodes.kind # "list"
    THEN [ok |-> FALSE, nodes |-> <<>>]
    ELSE [ok |-> TRUE, nodes |-> cfg.cluster_nodes.nodes]

\* reduce_node_list() up to the set(): the three removal passes, in order
ReducePasses(lst, cfg, mst) ==
    LET l1 == IF cfg.hostname \in ToSet(lst) /\ cfg.no_local
              THEN RemoveFirst(lst, cfg.hostname) ELSE lst
        l2 == RemoveEach(l1, cfg.ip_addrs)
        l3 == IF cfg.master # Blank
              THEN RemoveWhileIterating(l2, 1, {mst.hostname, cfg.master})
              ELSE l2
    IN  l3

\* reduce_node_list(): the lists list(set(n for n in node_list if n)) may give
reduce_node_list(lst, cfg, mst) ==
    Orderings({n \in ToSet(ReducePasses(lst, cfg, mst)) : n # Blank})

\* get_nodes() before reduce_node_list(): the base list, with the local host
\* replaced by config['hostname'] unless a master is designated
BaseNodeList(cfg) ==
    IF cfg.nodes # <<>> THEN [ok |-> TRUE, nodes |-> Split(cfg.nodes, COMMA)]
    ELSE get_nodes_from_cluster(cfg)

TrustLocalHostname(lst, cfg) ==
    IF cfg.master = Blank
    THEN LET host == ShortName(cfg.hostname)
         IN  Append(RemoveWhileIterating(lst, 1,
                        {n \in ToSet(lst) : ShortName(n) = host}),
                    cfg.hostname)
    ELSE lst

\* len(max(node_list, key=len)), or len(config['master']) when max() raises
HostLen(lst, cfg) ==
    IF lst = <<>> THEN Len(cfg.master)
    ELSE CHOOSE n \in {Len(lst[i]) : i \in DOMAIN lst} :
             \A i \in DOMAIN lst : Len(lst[i]) <= n

\* _exit(msg): close every connection, then sys.exit(1)
Exit ==
    /\ closed' = closed \cup close_all_connections(client_list)
    /\ exit_status' = 1
    /\ pc' = "exited"

get_nodes ==
    /\ pc = "get_nodes"
    /\ IF (config.master = Blank /\ config.cluster = "none") \/ ~BaseNodeList(config).ok
       THEN /\ Exit
            /\ UNCHANGED <<init_vars, archive_vars>>
            /\ UNCHANGED <<config, master, node_list, reduce_calls, client_list,
                           client_retrieved, report_num, retrieved, idx, work_queue,
                           task, loaded, extra_calls, archive_calls, interrupted,
                           conn_failed>>
       ELSE /\ \E l \in reduce_node_list(
                           TrustLocalHostname(BaseNodeList(config).nodes, config),
                           config, master) :
                 /\ node_list' = l
                 /\ config' = [config EXCEPT !.hostlen = HostLen(l, config)]
            /\ reduce_calls' = 1
            /\ pc' = "intro"
            /\ UNCHANGED <<master, collect_vars, init_vars, archive_vars>>

\* reduce_node_list() applied to the node list it produced
reduce_again ==
    /\ pc = "intro"
    /\ reduce_calls < MaxReduce
    /\ \E l \in reduce_node_list(node_list, config, master) : node_list' = l
    /\ reduce_calls' = reduce_calls + 1
    /\ UNCHANGED <<config, master, pc, collect_vars, init_vars, archive_vars>>

\* the master SosNode prep() leaves: connect_to_master() or SosNode('localhost')
MasterOf(addr) ==
    IF addr = Blank
    THEN [address |-> LOCALHOST, hostname |-> H_FULL, connected |-> TRUE, local |-> TRUE]
    ELSE [address |-> addr, hostname |-> M_HOST, connected |-> TRUE, local |-> FALSE]

InitNodes ==
    /\ \E base \in SeqsUpTo(NodeNames, MaxLen), m \in {Blank, M_ADDR},
          nl \in BOOLEAN, src \in {"explicit", "list", "none", "raise"} :
         /\ m # Blank => nl                 \* prep() sets no_local with a master
         /\ src \in {"none", "raise"} => base = <<>>
         /\ config = [nodes         |-> IF src = "explicit" THEN Join(base) ELSE <<>>,
                      cluster       |-> "plain",
                      cluster_nodes |-> IF src = "list" THEN EnumList(base)
                                        ELSE IF src = "raise" THEN EnumRaise
                                        ELSE EnumNone,
                      master        |-> m,
                      hostname      |-> H_FULL,
                      no_local      |-> nl,
                      ip_addrs      |-> <<IP_LOCAL>>,
                      threads       |-> 1,
                      tmp_dir_created |-> TRUE,
                      hostlen       |-> 0]
         /\ master = MasterOf(m)
    /\ node_list = <<>>
    /\ reduce_calls = 0
    /\ pc = "get_nodes"
    /\ ConstructedCollectVars
    /\ ConstructedOtherVars

NextNodes == get_nodes \/ reduce_again

SpecNodes == InitNodes /\ [][NextNodes]_vars

----------------------------------------------------------------------------
(* Claims about the node list (checked under SpecNodes) *)

AfterGetNodes == pc = "intro" /\ reduce_calls = 1

\* C8: with no designated master, after get_nodes() the node list holds the
\* local host exactly once, as config['hostname'], and no other entry whose
\* short hostname is the local short hostname.
C8_LocalHostOnceCanonical ==
    (AfterGetNodes /\ config.master = Blank) =>
        /\ Count(node_list, config.hostname) = 1
        /\ \A i \in DOMAIN node_list :
               node_list[i] # config.hostname =>
                   ShortName(node_list[i]) # ShortName(config.hostname)

\* C9: after reduce_node_list() the node list holds no entry equal to the
\* master's hostname or configured address, none of the run's own IP
\* addresses, no blank entry, no duplicate and, under no_local, no entry equal
\* to the local hostname.
C9_ReducedListClean ==
    (pc = "intro" /\ reduce_calls >= 1) =>
        /\ config.master # Blank =>
               \A i \in DOMAIN node_list :
                   node_list[i] \notin {master.hostname, config.master}
        /\ \A i \in DOMAIN node_list : node_list[i] \notin ToSet(config.ip_addrs)
        /\ \A i \in DOMAIN node_list : node_list[i] # Blank
        /\ \A i, j \in DOMAIN node_list : i # j => node_list[i] # node_list[j]
        /\ config.no_local => \A i \in DOMAIN node_list : node_list[i] # config.hostname

\* C10: reduce_node_list() applied to a list it produced leaves the set of
\* nodes as it is.
C10_ReduceIdempotent ==
    [][(pc = "intro" /\ reduce_calls >= 1 /\ reduce_calls' = reduce_calls + 1)
           => ToSet(node_list') = ToSet(node_list)]_vars

\* C11: with no explicit node list, a cluster enumeration that raises, returns
\* None or returns an empty sequence ends the run in _exit with a non-zero
\* status, with no node list built, no connection attempted and no archive.
C11_EnumerationFailureFatal ==
    (/\ pc # "get_nodes"
     /\ config.nodes = <<>>
     /\ config.cluster_nodes.kind # "list" \/ config.cluster_nodes.nodes = <<>>) =>
        /\ pc = "exited"
        /\ exit_status = 1
        /\ node_list = <<>>
        /\ client_list = <<>>
        /\ archive_calls = 0

----------------------------------------------------------------------------
(* collect(): the connection loop *)

\* SosNode.local of the client at an address (sosnode.py is not part of src/)
IsLocal(addr) == addr \in {LOCALHOST, H_FULL}

\* (mutant) the node is compared with the master's address only
IsMasterNode_AddressOnly(node, mst) == node = mst.address

\* line 453: the node is the master, which is already in client_list
IsMasterNode(node, mst) == node \in {mst.address, mst.hostname}

\* lines 455-460: what SosNode(node, config) can do
ConnectOutcomes == {"connected", "not_connected", "raise", "interrupt"}

\* (mutant) the client is appended without the test of client.connected
ConnectAppends_Unchecked(outcome) == outcome \in {"connected", "not_connected"}

\* lines 457-458: the client is appended only when it is connected
ConnectAppends(outcome) == outcome = "connected"

\* lines 449-451
collect_begin ==
    /\ pc = "collect"
    /\ IF master.connected
       THEN /\ client_list' = Append(client_list, master.address)
            /\ client_retrieved' = Append(client_retrieved, FALSE)
       ELSE UNCHANGED <<client_list, client_retrieved>>
    /\ idx' = 1
    /\ pc' = "connect"
    /\ UNCHANGED <<cfg_vars, init_vars, archive_vars, nodes_vars, report_num, retrieved, work_queue, task,
                   loaded, extra_calls, archive_calls, closed, exit_status,
                   interrupted, conn_failed>>

\* lines 452-460: one iteration of "for node in self.node_list"; the bare
\* except swallows whatever SosNode() raises, a KeyboardInterrupt included
connect_node ==
    /\ pc = "connect"
    /\ idx <= Len(node_list)
    /\ LET node == node_list[idx] IN
       IF IsMasterNode(node, master)
       THEN UNCHANGED <<client_list, client_retrieved, conn_failed, interrupted>>
       ELSE \E outcome \in ConnectOutcomes :
              /\ IF ConnectAppends(outcome)
                 THEN /\ client_list' = Append(client_list, node)
                      /\ client_retrieved' = Append(client_retrieved, FALSE)
                 ELSE UNCHANGED <<client_list, client_retrieved>>
              /\ conn_failed' = IF outcome = "connected" THEN conn_failed
                                ELSE conn_failed \cup {node}
              /\ interrupted' = (interrupted \/ outcome = "interrupt")
    /\ idx' = idx + 1
    /\ UNCHANGED <<cfg_vars, init_vars, archive_vars, nodes_vars, pc, report_num, retrieved, work_queue, task,
                   loaded, extra_calls, archive_calls, closed, exit_status>>

\* lines 462-469: the loop is over; report_num is set and the pool is created
connect_done ==
    /\ pc = "connect"
    /\ idx > Len(node_list)
    /\ report_num' = Len(client_list)
    /\ idx' = 1
    /\ pc' = "map"
    /\ UNCHANGED <<cfg_vars, init_vars, archive_vars, nodes_vars, client_list, client_retrieved, retrieved,
                   work_queue, task, loaded, extra_calls, archive_calls, closed,
                   exit_status, interrupted, conn_failed>>

----------------------------------------------------------------------------
(* collect(): the worker pool, lines 468-471, and _collect, lines 490-498 *)

Running == {k \in DOMAIN task : task[k] \in {"sosreport", "load", "store"}}

Finished(k) == task[k] \in {"done", "raised"}

\* (mutant) the pool starts one worker too many
PoolHasIdleWorker_OffByOne == Cardinality(Running) <= config.threads

\* ThreadPoolExecutor(self.config['threads']): at most that many workers run tasks
PoolHasIdleWorker == Cardinality(Running) < config.threads

\* (mutant) pool.shutdown(wait=False)
PoolShutdownReturns_NoWait == TRUE

\* pool.shutdown(wait=True) returns when every submitted task has ended
PoolShutdownReturns == \A k \in DOMAIN task : Finished(k)

\* pool.map(): submits one _collect call per client, in list order
submit ==
    /\ pc = "map"
    /\ idx <= Len(client_list)
    /\ task' = Append(task, "queued")
    /\ loaded' = Append(loaded, 0)
    /\ work_queue' = Append(work_queue, idx)
    /\ idx' = idx + 1
    /\ UNCHANGED <<cfg_vars, init_vars, archive_vars, nodes_vars, pc, client_list, client_retrieved,
                   report_num, retrieved, extra_calls, archive_calls, closed,
                   exit_status, interrupted, conn_failed>>

map_done ==
    /\ pc = "map"
    /\ idx > Len(client_list)
    /\ pc' = "shutdown"
    /\ UNCHANGED <<cfg_vars, init_vars, archive_vars, nodes_vars, collect_vars>>

shutdown_done ==
    /\ pc = "shutdown"
    /\ PoolShutdownReturns
    /\ pc' = "extra"
    /\ UNCHANGED <<cfg_vars, init_vars, archive_vars, nodes_vars, collect_vars>>

\* the worker threads run until os._exit(1) ends the process
PoolAlive == pc # "killed"

\* a worker thread takes the next work item
start_task ==
    /\ PoolAlive
    /\ work_queue # <<>>
    /\ PoolHasIdleWorker
    /\ task' = [task EXCEPT ![Head(work_queue)] = "sosreport"]
    /\ work_queue' = Tail(work_queue)
    /\ UNCHANGED <<cfg_vars, init_vars, archive_vars, nodes_vars, pc, client_list, client_retrieved,
                   report_num, retrieved, idx, loaded, extra_calls, archive_calls,
                   closed, exit_status, interrupted, conn_failed>>

\* lines 492-496: sosreport() is called unless the client is local under no_local
CallsSosreport(addr, cfg) == ~IsLocal(addr) \/ ~cfg.no_local

\* client.sosreport(): retrieves the report, fails, or raises (sosnode.py)
SosreportOutcomes == {"retrieved", "failed", "raise"}

\* (mutant) the exception is re-raised in the main thread and leaves collect()
TaskRaises_InMain(k) ==
    /\ task' = [task EXCEPT ![k] = "raised"]
    /\ pc' = "raised"
    /\ UNCHANGED client_retrieved

\* where an exception raised inside _collect goes: it is kept in the task's
\* future, which nothing reads (the iterator pool.map returns is dropped)
TaskRaises(k) ==
    /\ task' = [task EXCEPT ![k] = "raised"]
    /\ UNCHANGED <<pc, client_retrieved>>

\* lines 492-497: the sosreport() call and the test of client.retrieved
do_sosreport(k) ==
    /\ PoolAlive
    /\ task[k] = "sosreport"
    /\ IF CallsSosreport(client_list[k], config)
       THEN \E outcome \in SosreportOutcomes :
              CASE outcome = "retrieved" ->
                       /\ client_retrieved' = [client_retrieved EXCEPT ![k] = TRUE]
                       /\ task' = [task EXCEPT ![k] = "load"]
                       /\ UNCHANGED pc
                [] outcome = "failed" ->
                       /\ task' = [task EXCEPT ![k] = "done"]
                       /\ UNCHANGED <<pc, client_retrieved>>
                [] outcome = "raise" -> TaskRaises(k)
       ELSE /\ task' = [task EXCEPT ![k] = "done"]
            /\ UNCHANGED <<pc, client_retrieved>>
    /\ UNCHANGED <<cfg_vars, init_vars, archive_vars, nodes_vars, client_list, report_num, retrieved, idx,
                   work_queue, loaded, extra_calls, archive_calls, closed,
                   exit_status, interrupted, conn_failed>>

\* line 498, "self.retrieved += 1": the read of self.retrieved ...
load_retrieved(k) ==
    /\ PoolAlive
    /\ task[k] = "load"
    /\ loaded' = [loaded EXCEPT ![k] = retrieved]
    /\ task' = [task EXCEPT ![k] = "store"]
    /\ UNCHANGED <<cfg_vars, init_vars, archive_vars, nodes_vars, pc, client_list, client_retrieved,
                   report_num, retrieved, idx, work_queue, extra_calls,
                   archive_calls, closed, exit_status, interrupted, conn_failed>>

\* ... and the write of the value read plus one; no lock is held in between
store_retrieved(k) ==
    /\ PoolAlive
    /\ task[k] = "store"
    /\ retrieved' = loaded[k] + 1
    /\ task' = [task EXCEPT ![k] = "done"]
    /\ UNCHANGED <<cfg_vars, init_vars, archive_vars, nodes_vars, pc, client_list, client_retrieved,
                   report_num, idx, work_queue, loaded, extra_calls, archive_calls,
                   closed, exit_status, interrupted, conn_failed>>

----------------------------------------------------------------------------
(* collect(): the extra step, the summary and the ways out *)

\* line 476: hasattr(self.config['cluster'], 'run_extra_cmd')
HasExtra(cfg) == cfg.cluster = "extra"

\* (mutant) the summary tests self.retrieved >= 0
ReportsCollected_OrNone(r) == r >= 0

\* line 483: self.retrieved > 0
ReportsCollected(r) == r > 0

\* lines 476-480: run_extra_cmd() and collect_extra_cmd() return or raise
extra_step ==
    /\ pc = "extra"
    /\ IF HasExtra(config)
       THEN /\ extra_calls' = extra_calls + 1
            /\ \E outcome \in {"returns", "raise"} :
                 pc' = IF outcome = "returns" THEN "summary" ELSE "raised"
       ELSE /\ pc' = "summary"
            /\ UNCHANGED extra_calls
    /\ UNCHANGED <<cfg_vars, init_vars, archive_vars, nodes_vars, client_list, client_retrieved, report_num,
                   retrieved, idx, work_queue, task, loaded, archive_calls, closed,
                   exit_status, interrupted, conn_failed>>

\* lines 481-488, with create_cluster_archive (506-516), create_sos_archive
\* (518-534) and cleanup (536-547): cleanup's pattern '*sosreport-*tar*' does
\* not compile, so cleanup raises out of collect() when tmp_dir is the user's
summary ==
    /\ pc = "summary"
    /\ IF ReportsCollected(retrieved)
       THEN /\ archive_calls' = archive_calls + 1
            /\ \E outcome \in {"written", "fails"} :
                 IF outcome = "fails" THEN Exit
                 ELSE IF config.tmp_dir_created
                 THEN /\ closed' = closed \cup close_all_connections(client_list)
                      /\ pc' = "done"
                      /\ UNCHANGED exit_status
                 ELSE /\ pc' = "raised"
                      /\ UNCHANGED <<closed, exit_status>>
       ELSE /\ Exit
            /\ UNCHANGED archive_calls
    /\ UNCHANGED <<cfg_vars, init_vars, archive_vars, nodes_vars, client_list, client_retrieved, report_num,
                   retrieved, idx, work_queue, task, loaded, extra_calls,
                   interrupted, conn_failed>>

\* a KeyboardInterrupt in the main thread outside the try blocks of collect():
\* it propagates out of collect()
interrupt_propagates ==
    /\ pc \in {"collect", "connect", "extra", "summary"}
    /\ interrupted' = TRUE
    /\ pc' = "raised"
    /\ UNCHANGED <<cfg_vars, init_vars, archive_vars, nodes_vars, client_list, client_retrieved, report_num,
                   retrieved, idx, work_queue, task, loaded, extra_calls,
                   archive_calls, closed, exit_status, conn_failed>>

\* lines 472-474: a KeyboardInterrupt while the pool is used ends the process
interrupt_pool ==
    /\ pc \in {"map", "shutdown"}
    /\ interrupted' = TRUE
    /\ exit_status' = 1
    /\ pc' = "killed"
    /\ UNCHANGED <<cfg_vars, init_vars, archive_vars, nodes_vars, client_list, client_retrieved, report_num,
                   retrieved, idx, work_queue, task, loaded, extra_calls,
                   archive_calls, closed, conn_failed>>

----------------------------------------------------------------------------
(* The state collect() starts from *)

CollectNames == {N_SHORT, H_FULL, M_ADDR}

\* what get_nodes() and intro() leave: no blank entry and no duplicate (line
\* 403), the local hostname appended unless removed under no_local (lines 423,
\* 391-393), and some node or a connected master (line 298)
NodeListAtCollect(l, cfg, mst) ==
    /\ \A i, j \in DOMAIN l : i # j => l[i] # l[j]
    /\ (cfg.master = Blank /\ ~cfg.no_local) => cfg.hostname \in ToSet(l)
    /\ l # <<>> \/ mst.connected

Init ==
    /\ \E l \in SeqsUpTo(CollectNames, MaxNodes), m \in {Blank, M_ADDR},
          nl \in BOOLEAN, conn \in BOOLEAN, cl \in {"plain", "extra"},
          th \in 1..MaxThreads, tdc \in BOOLEAN :
         /\ m # Blank => nl
         /\ config = [nodes         |-> <<>>,
                      cluster       |-> cl,
                      cluster_nodes |-> EnumList(l),
                      master        |-> m,
                      hostname      |-> H_FULL,
                      no_local      |-> nl,
                      ip_addrs      |-> <<IP_LOCAL>>,
                      threads       |-> th,
                      tmp_dir_created |-> tdc,
                      hostlen       |-> HostLen(l, [master |-> m])]
         /\ master = [MasterOf(m) EXCEPT !.connected = conn]
         /\ NodeListAtCollect(l, config, master)
         /\ node_list = l
    /\ reduce_calls = 1
    /\ pc = "collect"
    /\ ConstructedCollectVars
    /\ ConstructedOtherVars

Next ==
    \/ collect_begin
    \/ connect_node
    \/ connect_done
    \/ submit
    \/ map_done
    \/ start_task
    \/ \E k \in DOMAIN task : do_sosreport(k)
    \/ \E k \in DOMAIN task : load_retrieved(k)
    \/ \E k \in DOMAIN task : store_retrieved(k)
    \/ shutdown_done
    \/ extra_step
    \/ summary
    \/ interrupt_propagates
    \/ interrupt_pool

Spec == Init /\ [][Next]_vars

\* the scheduler runs every thread that can take a step; interrupts are the
\* user's choice
Progress ==
    \/ collect_begin
    \/ connect_node
    \/ connect_done
    \/ submit
    \/ map_done
    \/ start_task
    \/ \E k \in DOMAIN task : do_sosreport(k)
    \/ \E k \in DOMAIN task : load_retrieved(k)
    \/ \E k \in DOMAIN task : store_retrieved(k)
    \/ shutdown_done
    \/ extra_step
    \/ summary

FairSpec == Spec /\ WF_vars(Progress)

----------------------------------------------------------------------------
(* Claims about collect() (checked under Spec; C3 under FairSpec) *)

Succeeded == {k \in DOMAIN client_retrieved : client_retrieved[k]}

AllTasksEnded ==
    /\ Len(task) = Len(client_list)
    /\ work_queue = <<>>
    /\ \A k \in DOMAIN task : Finished(k)

Summarised == pc \in {"summary", "done", "exited"}

\* C1: the success count collect() reports equals the number of clients whose
\* collection succeeded (client.retrieved), under every interleaving of the
\* _collect tasks.
C1_TallyEqualsSucceeded ==
    Summarised => retrieved = Cardinality(Succeeded)

\* C2: the number of _collect tasks running at once never exceeds
\* config['threads'].
C2_PoolBounded == Cardinality(Running) <= config.threads

C2_PoolFullWithBacklog ==
    /\ config.threads >= 2
    /\ Cardinality(Running) = config.threads
    /\ work_queue # <<>>

\* C3: a task whose sosreport() raises or retrieves nothing leaves the main
\* thread, its sibling tasks and the tally as they are and never adds to the
\* tally later; once collect() is past the pool every client's task has ended;
\* and a run with a raised task still gets past the pool to the summary unless
\* an interrupt or the extra step ends it.
C3_TaskFailureIsLocal ==
    /\ [](pc \in {"extra", "summary", "done", "exited"} => AllTasksEnded)
    /\ [][\A k \in DOMAIN task :
             /\ (task[k] = "sosreport" /\ task'[k] \in {"raised", "done"}) =>
                    /\ retrieved' = retrieved
                    /\ pc' = pc
                    /\ \A j \in DOMAIN task \ {k} : task'[j] = task[j]
             /\ Finished(k) => task'[k] = task[k]]_vars
    /\ (\E k \in DOMAIN task : task[k] = "raised")
           ~> (Summarised \/ pc \in {"killed", "raised"})

C3_RaisedTaskAndSummary ==
    /\ pc = "summary"
    /\ \E k \in DOMAIN task : task[k] = "raised"
    /\ \E k \in DOMAIN task : task[k] = "done" /\ ~client_retrieved[k]
    /\ \E k \in DOMAIN task : task[k] = "done" /\ client_retrieved[k]
    /\ retrieved = 1

\* C4: a node whose connection attempt failed is not in the client list, is
\* counted neither in report_num nor in the tally and gets no task, while a
\* client whose task ran and failed is in the client list and in report_num.
C4_FailedConnectionExcluded ==
    /\ \A n \in conn_failed : n \notin ToSet(client_list)
    /\ report_num # -1 =>
           /\ report_num = Len(client_list)
           /\ report_num =
                  Cardinality({n \in ToSet(node_list) :
                                   ~IsMasterNode(n, master) /\ n \notin conn_failed})
                  + (IF master.connected THEN 1 ELSE 0)
    /\ Len(task) <= Len(client_list)
    /\ retrieved <= Cardinality(Succeeded)
    /\ \A k \in DOMAIN task :
           (Finished(k) /\ ~client_retrieved[k]) =>
               client_list[k] \notin conn_failed /\ k <= report_num

C4_FailedConnectionAndFailedTask ==
    /\ pc = "summary"
    /\ conn_failed # {}
    /\ \E k \in DOMAIN task : Finished(k) /\ ~client_retrieved[k]
    /\ report_num = 2
    /\ retrieved = 1

\* C5: run_extra_cmd() is invoked at most once, only when the profile has it
\* and only when every submitted task has ended, and it has been invoked once
\* whenever collect() reaches the summary with such a profile.
C5_ExtraOnceAfterTasks ==
    /\ extra_calls <= 1
    /\ extra_calls >= 1 => (HasExtra(config) /\ AllTasksEnded)
    /\ (Summarised /\ HasExtra(config)) => extra_calls = 1

C5_ExtraRanAfterTwoTasks ==
    /\ pc = "summary"
    /\ extra_calls = 1
    /\ Len(task) >= 2

\* C6: create_sos_archive() is called at most once, only after the extra step
\* and only if some client succeeded; with no successful client the run ends
\* in _exit with status 1 and without any create_sos_archive() call.
C6_ArchiveOnlyAfterSuccess ==
    /\ archive_calls <= 1
    /\ archive_calls >= 1 =>
           /\ Succeeded # {}
           /\ AllTasksEnded
           /\ HasExtra(config) => extra_calls = 1
    /\ (pc \in {"done", "exited"} /\ Succeeded = {}) =>
           (pc = "exited" /\ exit_status = 1 /\ archive_calls = 0)

C6_NoReportsFatalExit ==
    /\ pc = "exited"
    /\ Len(task) >= 2
    /\ Succeeded = {}
    /\ HasExtra(config)
    /\ archive_calls = 0

\* C7: once a KeyboardInterrupt has been delivered, no further connection is
\* attempted, no further task is submitted and the archive step does not run.
C7_InterruptStopsRun ==
    [][interrupted =>
           /\ client_list' = client_list
           /\ conn_failed' = conn_failed
           /\ Len(task') = Len(task)
           /\ archive_calls' = archive_calls]_vars

----------------------------------------------------------------------------
(* __init__: _load_clusters (191-208) *)

F_INIT    == <<"__init__", ".py">>
F_BASE    == <<"cluster", ".py">>
F_EXTRA   == <<"extra", ".py">>
F_EXTRAC  == <<"extra", ".pyc">>
F_OTHER   == <<"other", ".py">>
F_PLAIN   == <<"plain", ".py">>

\* the files of soscollector/clusters in the order sorted() gives their names
FileOrder == <<F_INIT, F_BASE, F_EXTRA, F_EXTRAC, F_OTHER, F_PLAIN>>

ProfileFiles == {F_EXTRA, F_OTHER, F_PLAIN}

\* sorted(os.listdir(path)): a directory listing holds each name once
SortedListing(listing) == SelectSeq(FileOrder, LAMBDA f : f \in ToSet(listing))

\* os.path.splitext(f) and the test of line 204
IsProfileFile(f) == f[2] = ".py" /\ f[1] \notin {"__init__", "cluster"}

\* the options each profile class declares (clusters/*.py are not part of src/)
ProfileOptions(name) ==
    CASE name = "extra" ->
             <<[name |-> "flag", opt_type |-> "bool", value |-> FALSE],
               [name |-> "path", opt_type |-> "str", value |-> <<"d">>]>>
      [] name = "plain" ->
             <<[name |-> "flag", opt_type |-> "bool", value |-> TRUE]>>
      [] OTHER -> <<>>

RECURSIVE LoadFrom(_)
LoadFrom(files) ==
    IF files = <<>> THEN <<>>
    ELSE IF IsProfileFile(Head(files))
    THEN <<[name |-> Head(files)[1], options |-> ProfileOptions(Head(files)[1])]>>
         \o LoadFrom(Tail(files))
    ELSE LoadFrom(Tail(files))

ClusterNames == {clusters[i].name : i \in DOMAIN clusters}

ClusterIndex(name) == CHOOSE i \in DOMAIN clusters : clusters[i].name = name

\* lines 55 and 191-208
load_clusters ==
    /\ pc = "load"
    /\ clusters' = LoadFrom(SortedListing(config.listing))
    /\ idx' = 1
    /\ pc' = "parse_options"
    /\ UNCHANGED <<cfg_vars, archive_vars, nodes_vars, probed, error, sos_cmd,
                   client_list, client_retrieved, report_num, retrieved, work_queue,
                   task, loaded, extra_calls, archive_calls, closed, exit_status,
                   interrupted, conn_failed>>

----------------------------------------------------------------------------
(* __init__: _parse_options (101-115) and _validate_option (117-140) *)

LowerTable ==
    [T |-> "t", R |-> "r", U |-> "u", E |-> "e", O |-> "o", N |-> "n", F |-> "f",
     A |-> "a", L |-> "l", S |-> "s"]

\* str.lower()
Lower(str) ==
    [i \in DOMAIN str |-> IF str[i] \in DOMAIN LowerTable THEN LowerTable[str[i]]
                          ELSE str[i]]

S_TRUE  == <<"t", "r", "u", "e">>
S_ON    == <<"o", "n">>
S_FALSE == <<"f", "a", "l", "s", "e">>
S_OFF   == <<"o", "f", "f">>

\* (mutant) the value is compared without lower()
BoolToken_CaseSensitive(str) == str

\* line 131: val = cli.value.lower()
BoolToken(str) == Lower(str)

\* _validate_option(default, cli): ok = FALSE is the _exit(msg) of lines 128, 135
_validate_option(default, cli) ==
    IF default.opt_type # "bool"
    THEN IF default.opt_type # cli.opt_type
         THEN [ok |-> FALSE, msg |-> "Invalid option type"]
         ELSE [ok |-> TRUE, value |-> cli.value]
    ELSE LET val == BoolToken(cli.value) IN
         IF val \notin {S_TRUE, S_ON, S_FALSE, S_OFF}
         THEN [ok |-> FALSE, msg |-> "Invalid value"]
         ELSE [ok |-> TRUE, value |-> (val \in {S_TRUE, S_ON})]

\* _exit(msg), with the message kept
ExitWith(msg) ==
    /\ Exit
    /\ error' = msg

\* an exception nothing catches leaves __init__
Raise(exc) ==
    /\ pc' = "raised"
    /\ error' = exc
    /\ UNCHANGED <<closed, exit_status>>

\* lines 105-115: one iteration of "for opt in self.config['cluster_options']"
parse_option ==
    /\ pc = "parse_options"
    /\ idx <= Len(config.cluster_options)
    /\ LET opt == config.cluster_options[idx] IN
       IF opt.cluster \notin ClusterNames
       THEN Raise("KeyError") /\ UNCHANGED <<clusters, idx>>
       ELSE LET c     == ClusterIndex(opt.cluster)
                opts  == clusters[c].options
                match == {i \in DOMAIN opts : opts[i].name = opt.name}
            IN  IF match = {}
                THEN ExitWith("Unknown option provided") /\ UNCHANGED <<clusters, idx>>
                ELSE LET i == CHOOSE i \in match : TRUE
                         v == _validate_option(opts[i], opt)
                     IN  IF v.ok
                         THEN /\ clusters' =
                                     [clusters EXCEPT ![c].options[i].value = v.value]
                              /\ idx' = idx + 1
                              /\ UNCHANGED <<pc, error, closed, exit_status>>
                         ELSE ExitWith(v.msg) /\ UNCHANGED <<clusters, idx>>
    /\ UNCHANGED <<cfg_vars, archive_vars, nodes_vars, probed, sos_cmd, client_list,
                   client_retrieved, report_num, retrieved, work_queue, task, loaded,
                   extra_calls, archive_calls, interrupted, conn_failed>>

\* line 57: the loop is over and prep() is called
parse_options_done ==
    /\ pc = "parse_options"
    /\ idx > Len(config.cluster_options)
    /\ pc' = "prep"
    /\ UNCHANGED <<cfg_vars, init_vars, archive_vars, nodes_vars, collect_vars>>

----------------------------------------------------------------------------
(* prep (235-290), connect_to_master (344-351), determine_cluster (353-375),
   intro (292-317), configure_sos_cmd (319-342) *)

\* self.master = False (line 48)
NoMaster == [address |-> Blank, hostname |-> Blank, connected |-> FALSE, local |-> FALSE]

\* lines 274-278; SosNode() connects, comes back unconnected, or raises
prep_master ==
    /\ pc = "prep"
    /\ \E outcome \in {"connected", "not_connected", "raise"} :
         IF outcome = "raise" /\ config.master # Blank
         THEN /\ ExitWith("Could not connect to master node")
              /\ UNCHANGED <<config, master>>
         ELSE /\ master' = [MasterOf(config.master) EXCEPT
                               !.connected = (outcome = "connected")]
              /\ config' = IF config.master # Blank
                           THEN [config EXCEPT !.no_local = TRUE] ELSE config
              /\ pc' = "resolve"
              /\ UNCHANGED <<error, closed, exit_status>>
    /\ UNCHANGED <<archive_vars, nodes_vars, clusters, probed, sos_cmd, client_list,
                   client_retrieved, report_num, retrieved, idx, work_queue, task,
                   loaded, extra_calls, archive_calls, interrupted, conn_failed>>

\* lines 279-282: a forced cluster type is looked up, else determine_cluster()
resolve_cluster ==
    /\ pc = "resolve"
    /\ IF config.cluster_type # ""
       THEN IF config.cluster_type \in ClusterNames
            THEN /\ config' = [config EXCEPT !.cluster = config.cluster_type]
                 /\ pc' = "check"
                 /\ UNCHANGED <<error, closed, exit_status>>
            ELSE Raise("KeyError") /\ UNCHANGED config
       ELSE /\ pc' = "determine"
            /\ UNCHANGED <<config, error, closed, exit_status>>
    /\ idx' = 1
    /\ UNCHANGED <<master, archive_vars, nodes_vars, clusters, probed, sos_cmd,
                   client_list, client_retrieved, report_num, retrieved, work_queue,
                   task, loaded, extra_calls, archive_calls, interrupted, conn_failed>>

\* the profile's check_enabled(), as the environment decides it
check_enabled(name, cfg) == name \in cfg.applicable

\* (mutant) the loop goes on after a match
BreaksAfterMatch_Missing == FALSE

\* line 371: break
BreaksAfterMatch == TRUE

\* lines 363-371: one iteration of "for clus in self.clusters"
probe_cluster ==
    /\ pc = "determine"
    /\ idx <= Len(clusters)
    /\ LET name == clusters[idx].name IN
         /\ probed' = Append(probed, name)
         /\ IF check_enabled(name, config)
            THEN /\ config' = [config EXCEPT !.cluster = name, !.cluster_type = name]
                 /\ IF BreaksAfterMatch
                    THEN pc' = "check" /\ UNCHANGED idx
                    ELSE idx' = idx + 1 /\ UNCHANGED pc
            ELSE /\ idx' = idx + 1
                 /\ UNCHANGED <<config, pc>>
    /\ UNCHANGED <<master, archive_vars, nodes_vars, clusters, error, sos_cmd,
                   client_list, client_retrieved, report_num, retrieved, work_queue,
                   task, loaded, extra_calls, archive_calls, closed, exit_status,
                   interrupted, conn_failed>>

\* the loop ends with no profile applicable
determine_done ==
    /\ pc = "determine"
    /\ idx > Len(clusters)
    /\ pc' = "check"
    /\ UNCHANGED <<cfg_vars, init_vars, archive_vars, nodes_vars, collect_vars>>

\* (mutant) the abort is skipped
PrepAborts_Never(cfg) == FALSE

\* line 283
PrepAborts(cfg) == cfg.cluster = "none" /\ cfg.nodes = <<>>

\* lines 283-287: the abort, else self.config['cluster'].setup(), which is an
\* AttributeError when config['cluster'] is None
check_cluster ==
    /\ pc = "check"
    /\ IF PrepAborts(config)
       THEN ExitWith("Cluster type could not be determined and no nodes provided")
       ELSE IF config.cluster = "none"
       THEN Raise("AttributeError")
       ELSE /\ pc' = "get_nodes"
            /\ UNCHANGED <<error, closed, exit_status>>
    /\ UNCHANGED <<cfg_vars, archive_vars, nodes_vars, clusters, probed, sos_cmd,
                   client_list, client_retrieved, report_num, retrieved, idx,
                   work_queue, task, loaded, extra_calls, archive_calls, interrupted,
                   conn_failed>>

CASE_ID == <<"case">>

\* lines 292-317: the abort, else the prompts for what is still empty
intro ==
    /\ pc = "intro"
    /\ IF node_list = <<>> /\ ~master.connected
       THEN /\ ExitWith("No nodes were detected")
            /\ UNCHANGED config
       ELSE /\ \E entered \in {Blank, CASE_ID} :
                 config' = IF config.case_id = Blank
                           THEN [config EXCEPT !.case_id = entered] ELSE config
            /\ pc' = "configure"
            /\ UNCHANGED <<error, closed, exit_status>>
    /\ UNCHANGED <<master, archive_vars, nodes_vars, clusters, probed, sos_cmd,
                   client_list, client_retrieved, report_num, retrieved, idx,
                   work_queue, task, loaded, extra_calls, archive_calls, interrupted,
                   conn_failed>>

\* "if flag: sos_cmd += text"
AppendIf(cmd, flag, text) == IF flag THEN Append(cmd, text) ELSE cmd

\* the profile's modify_sos_cmd(), as one more piece of the command
modify_sos_cmd(cmd, cfg) == Append(cmd, <<"modify", cfg.cluster>>)

\* lines 326-341
ConfiguredCmd(cmd, cfg) ==
    LET c1 == AppendIf(cmd, cfg.case_id # Blank, <<"--case-id=", cfg.case_id>>)
        c2 == AppendIf(c1, cfg.alloptions, <<"--alloptions">>)
        c3 == IF cfg.cluster_type # "" THEN modify_sos_cmd(c2, cfg) ELSE c2
        c4 == AppendIf(c3, cfg.verify, <<"--verify">>)
        c5 == AppendIf(c4, cfg.sysroot # Blank, <<"-s", cfg.sysroot>>)
        c6 == AppendIf(c5, cfg.chroot # Blank, <<"-c", cfg.chroot>>)
        c7 == AppendIf(c6, cfg.compression # Blank, <<"-z", cfg.compression>>)
        c8 == IF cfg.cluster_type # "" THEN modify_sos_cmd(c7, cfg) ELSE c7
    IN  c8

\* lines 319-342
configure_sos_cmd ==
    /\ pc = "configure"
    /\ sos_cmd' = IF config.sos_opt_line # Blank
                  THEN Append(sos_cmd, config.sos_opt_line)
                  ELSE ConfiguredCmd(sos_cmd, config)
    /\ pc' = "ready"
    /\ UNCHANGED <<cfg_vars, archive_vars, nodes_vars, clusters, probed, error,
                   collect_vars>>

----------------------------------------------------------------------------
(* SosCollector(config): _load_clusters, _parse_options, prep *)

MaxOverrides == 1

\* values an override can carry on the command line
OverrideValues ==
    {S_TRUE, S_ON, S_FALSE, S_OFF, <<"T", "R", "U", "E">>, <<"T", "r", "u", "e">>,
     <<"O", "n">>, <<"F", "A", "L", "S", "E">>, <<"O", "F", "F">>,
     <<"y", "e", "s">>, <<"1">>, <<>>, <<"o">>, <<"t", "r", "u", "e", "s">>}

\* ClusterOption(name, value, opt_type, cluster) as the command line gives it
Overrides ==
    [cluster : {"extra", "plain", "nope"}, name : {"flag", "path", "bogus"},
     value : OverrideValues, opt_type : {"str", "int"}]

FullListing == <<F_PLAIN, F_EXTRAC, F_INIT, F_EXTRA, F_BASE, F_OTHER>>

\* the config dict handed to SosCollector()
ConfigOf(listing, overrides, applicable, forced, nodes, m, enum, optline) ==
    [listing         |-> listing,
     cluster_options |-> overrides,
     applicable      |-> applicable,
     cluster_type    |-> forced,
     cluster         |-> "none",
     cluster_nodes   |-> enum,
     nodes           |-> nodes,
     master          |-> m,
     hostname        |-> H_FULL,
     no_local        |-> FALSE,
     ip_addrs        |-> <<IP_LOCAL>>,
     threads         |-> 1,
     tmp_dir_created |-> TRUE,
     hostlen         |-> 0,
     sos_opt_line    |-> optline,
     case_id         |-> Blank,
     alloptions      |-> TRUE,
     verify          |-> FALSE,
     sysroot         |-> Blank,
     chroot          |-> Blank,
     compression     |-> <<"gzip">>]

InitSetup ==
    /\ \/ \E overrides \in SeqsUpTo(Overrides, MaxOverrides) :
            config = ConfigOf(FullListing, overrides, {"plain"}, "", <<>>, Blank,
                              EnumList(<<N_SHORT>>), Blank)
       \/ \E files \in SUBSET ProfileFiles, applicable \in SUBSET {"extra", "other", "plain"},
             forced \in {"", "extra"}, nodes \in {<<>>, Join(<<N_SHORT, M_ADDR>>)},
             m \in {Blank, M_ADDR}, enum \in {EnumList(<<N_SHORT>>), EnumRaise},
             optline \in {Blank, <<"--batch">>} :
            \E listing \in Orderings(files \cup {F_BASE}) :
               config = ConfigOf(listing, <<>>, applicable, forced, nodes, m, enum,
                                 optline)
    /\ master = NoMaster
    /\ node_list = <<>>
    /\ reduce_calls = 0
    /\ pc = "load"
    /\ ConstructedCollectVars
    /\ ConstructedOtherVars

NextSetup ==
    \/ load_clusters
    \/ parse_option
    \/ parse_options_done
    \/ prep_master
    \/ resolve_cluster
    \/ probe_cluster
    \/ determine_done
    \/ check_cluster
    \/ get_nodes
    \/ intro
    \/ configure_sos_cmd

SpecSetup == InitSetup /\ [][NextSetup]_vars

----------------------------------------------------------------------------
(* Claims about construction and prep() (checked under SpecSetup) *)

\* determine_cluster() has returned, or a forced type has been looked up
Resolved == pc \notin {"load", "parse_options", "prep", "resolve", "determine"}

NoneApplicable == \A i \in DOMAIN clusters : clusters[i].name \notin config.applicable

\* C12: determine_cluster() calls check_enabled() on the profiles in load
\* order; no profile is probed after one that reported applicable, the selected
\* profile is the last one probed and it reported applicable, and when none is
\* selected every loaded profile was probed and reported not applicable.
C12_FirstApplicableSelected ==
    /\ Len(probed) <= Len(clusters)
    /\ \A i \in DOMAIN probed : probed[i] = clusters[i].name
    /\ \A i \in DOMAIN probed : i < Len(probed) => probed[i] \notin config.applicable
    /\ (probed # <<>> /\ config.cluster # "none") =>
           /\ config.cluster = probed[Len(probed)]
           /\ config.cluster \in config.applicable
    /\ (pc = "check" /\ config.cluster = "none") =>
           /\ Len(probed) = Len(clusters)
           /\ NoneApplicable

C12_SecondOfThreeSelected ==
    /\ pc = "check"
    /\ Len(clusters) = 3
    /\ probed = <<"extra", "other">>
    /\ config.cluster = "other"
    /\ "plain" \in config.applicable

\* no type forced, no loaded profile applicable, no explicit node list
NothingToCollectFrom ==
    /\ pc # "load"
    /\ config.cluster_type = ""
    /\ NoneApplicable
    /\ config.nodes = <<>>

\* C13: with no forced cluster type, no applicable profile and no explicit
\* node list, prep() ends in _exit with status 1; get_nodes() has not run, the
\* node list is still empty and no client has been connected.
C13_UnresolvedWithoutNodesFatal ==
    (NothingToCollectFrom /\ Resolved /\ pc # "check") =>
        /\ pc = "exited"
        /\ exit_status = 1
        /\ node_list = <<>>
        /\ reduce_calls = 0
        /\ client_list = <<>>

C13_AbortedAfterProbingAll ==
    /\ NothingToCollectFrom
    /\ pc = "exited"
    /\ error = "Cluster type could not be determined and no nodes provided"
    /\ Len(probed) >= 2
    /\ node_list = <<>>

\* C14: with an explicit node list, no forced cluster type and no applicable
\* profile, prep() neither raises nor aborts in resolution or in node-list
\* construction (a failed master connection is the only exit left).
C14_ExplicitNodesNeedNoProfile ==
    (/\ pc # "load"
     /\ config.cluster_type = ""
     /\ NoneApplicable
     /\ config.nodes # <<>>
     /\ Resolved /\ pc # "check") =>
        /\ pc # "raised"
        /\ pc = "exited" => error = "Could not connect to master node"

\* the override being parsed and the declared option it names
Override == config.cluster_options[idx]

Targets(opt) ==
    {<<c, i>> \in (DOMAIN clusters) \X (1..2) :
         /\ clusters[c].name = opt.cluster
         /\ i \in DOMAIN clusters[c].options
         /\ clusters[c].options[i].name = opt.name}

ParsingBoolOverride ==
    /\ pc = "parse_options"
    /\ idx <= Len(config.cluster_options)
    /\ \E t \in Targets(Override) : clusters[t[1]].options[t[2]].opt_type = "bool"

\* C15: parsing an override of a boolean option stores True when the value,
\* lower-cased, is true or on, stores False when it is false or off, and for
\* any other value ends in _exit with status 1 leaving every option unchanged.
C15_BoolOverrideTokens ==
    [][ParsingBoolOverride =>
          \A t \in Targets(Override) :
             LET low == Lower(Override.value) IN
               /\ low \in {S_TRUE, S_ON} =>
                      /\ clusters'[t[1]].options[t[2]].value = TRUE
                      /\ pc' = "parse_options"
               /\ low \in {S_FALSE, S_OFF} =>
                      /\ clusters'[t[1]].options[t[2]].value = FALSE
                      /\ pc' = "parse_options"
               /\ low \notin {S_TRUE, S_ON, S_FALSE, S_OFF} =>
                      /\ pc' = "exited"
                      /\ exit_status' = 1
                      /\ clusters' = clusters]_vars

C15_MixedCaseOnAccepted ==
    /\ pc = "prep"
    /\ Len(config.cluster_options) = 1
    /\ config.cluster_options[1].cluster = "extra"
    /\ config.cluster_options[1].name = "flag"
    /\ config.cluster_options[1].value = <<"O", "n">>
    /\ clusters[1].name = "extra"
    /\ clusters[1].options[1].value = TRUE

\* the first override names a cluster or an option no loaded profile has
FirstOverrideUnknown ==
    /\ config.cluster_options # <<>>
    /\ Targets(config.cluster_options[1]) = {}

\* C16: an override naming an unknown cluster or an unknown option ends the
\* run in _exit (message logged, status 1) with no connection opened.
C16_UnknownOverrideFatal ==
    (pc \notin {"load", "parse_options"} /\ FirstOverrideUnknown) =>
        /\ pc = "exited"
        /\ exit_status = 1
        /\ error = "Unknown option provided"
        /\ ~master.connected
        /\ client_list = <<>>

\* the connections opened so far, by address
OpenedAddrs ==
    ToSet(client_list) \cup (IF master.connected THEN {master.address} ELSE {})

ClosedAddrs == {client_list[k] : k \in closed}

\* C19: when the run has ended in _exit, close_ssh_session() has been called
\* on every connection opened so far, the master's included.
C19_ExitClosesEveryConnection ==
    pc = "exited" => OpenedAddrs \subseteq ClosedAddrs

----------------------------------------------------------------------------
(* create_cluster_archive (506-516), create_sos_archive (518-534),
   cleanup (536-547) *)

SLASH == "/"

\* config['tmp_dir'] and the names of the files it can hold
TMP_DIR    == <<"", SLASH, "work">>
LOG_FILE   == <<"tmpA">>
UI_FILE    == <<"tmpB">>
LOG_NAME   == <<"sos-collector.log">>
UI_NAME    == <<"ui.log">>
REPORT_1   == <<"sosreport-", "n1", ".", "tar", ".xz">>
OLD_REPORT == <<"sosreport-", "old", ".", "tar", ".xz">>
NOTES      == <<"notes", ".", "txt">>

\* self.arc_name (line 231)
ARC_NAME == <<"sos-collector-date-rand">>

\* what a directory the user supplied can hold besides this run's files
UserFiles == {LOG_NAME, UI_NAME, OLD_REPORT, NOTES}

\* os.path.join(dir, fname)
PathJoin(dir, fname) == dir \o <<SLASH>> \o fname

\* name.split('/')[-1]
Basename(path) == LET parts == Split(path, SLASH) IN parts[Len(parts)]

\* lines 524-528
ArcName(fname, cfg) ==
    IF fname = Basename(cfg.console_log_file) THEN UI_NAME
    ELSE IF fname = Basename(cfg.logfile) THEN LOG_NAME
    ELSE fname

\* line 530: arcname=self.arc_name + '/' + arcname
MemberName(fname, cfg) == cfg.arc_name \o <<SLASH>> \o ArcName(fname, cfg)

\* lines 518-534: one tar.add() per name os.listdir() returns, in its order;
\* an exception of tarfile ends in _exit
create_sos_archive ==
    /\ pc = "archive"
    /\ archive_calls' = archive_calls + 1
    /\ \E outcome \in {"written", "fails"} :
         IF outcome = "fails"
         THEN /\ ExitWith("Could not create archive")
              /\ UNCHANGED members
         ELSE /\ \E listing \in Orderings(tmp_files) :
                   members' = [k \in DOMAIN listing |-> MemberName(listing[k], config)]
              /\ pc' = "cleanup"
              /\ UNCHANGED <<error, closed, exit_status>>
    /\ UNCHANGED <<cfg_vars, nodes_vars, clusters, probed, sos_cmd, tmp_files,
                   client_list, client_retrieved, report_num, retrieved, idx,
                   work_queue, task, loaded, extra_calls, interrupted, conn_failed>>

\* line 546: the pattern handed to re.search
CLEANUP_PATTERN == <<"*", "sosreport-", "*", "tar", "*">>

\* re: a pattern that starts with a quantifier is "nothing to repeat"
RegexCompiles(pat) == pat = <<>> \/ pat[1] # "*"

\* re matching of a compiled pattern, with x* as zero or more x
RECURSIVE MatchHere(_, _)
RECURSIVE MatchStar(_, _, _)
MatchHere(pat, text) ==
    IF pat = <<>> THEN TRUE
    ELSE IF Len(pat) >= 2 /\ pat[2] = "*"
    THEN MatchStar(pat[1], SubSeq(pat, 3, Len(pat)), text)
    ELSE text # <<>> /\ text[1] = pat[1] /\ MatchHere(Tail(pat), Tail(text))

MatchStar(x, pat, text) ==
    \/ MatchHere(pat, text)
    \/ text # <<>> /\ text[1] = x /\ MatchStar(x, pat, Tail(text))

\* re.search(pat, text) as a truth value
re_search(pat, text) ==
    \E k \in 1..(Len(text) + 1) : MatchHere(pat, SubSeq(text, k, Len(text)))

\* lines 536-547: rmtree of a directory this run created, else os.remove of
\* the matching files; re.search raises re.error when the pattern is compiled
cleanup ==
    /\ pc = "cleanup"
    /\ IF config.tmp_dir_created
       THEN /\ tmp_files' = {}
            /\ pc' = "close"
            /\ UNCHANGED error
       ELSE IF tmp_files # {} /\ ~RegexCompiles(CLEANUP_PATTERN)
       THEN /\ pc' = "raised"
            /\ error' = "re.error"
            /\ UNCHANGED tmp_files
       ELSE /\ tmp_files' = {f \in tmp_files : ~re_search(CLEANUP_PATTERN, f)}
            /\ pc' = "close"
            /\ UNCHANGED error
    /\ UNCHANGED <<cfg_vars, nodes_vars, clusters, probed, sos_cmd, members,
                   collect_vars>>

\* line 488
close_connections ==
    /\ pc = "close"
    /\ closed' = closed \cup close_all_connections(client_list)
    /\ pc' = "done"
    /\ UNCHANGED <<cfg_vars, init_vars, archive_vars, nodes_vars, client_list,
                   client_retrieved, report_num, retrieved, idx, work_queue, task,
                   loaded, extra_calls, archive_calls, exit_status, interrupted,
                   conn_failed>>

\* collect() at line 484: some report was retrieved into tmp_dir, which holds
\* the two log files of _setup_logging as well
InitArchive ==
    /\ \E created \in BOOLEAN, others \in SUBSET UserFiles :
         /\ created => others = {}
         /\ config = [tmp_dir          |-> TMP_DIR,
                      tmp_dir_created  |-> created,
                      logfile          |-> PathJoin(TMP_DIR, LOG_FILE),
                      console_log_file |-> PathJoin(TMP_DIR, UI_FILE),
                      arc_name         |-> ARC_NAME,
                      dir_files        |-> {LOG_FILE, UI_FILE, REPORT_1} \cup others]
         /\ tmp_files = config.dir_files
    /\ master = [MasterOf(Blank) EXCEPT !.connected = FALSE]
    /\ node_list = <<N_SHORT, M_ADDR>>
    /\ reduce_calls = 1
    /\ client_list = node_list
    /\ client_retrieved = <<TRUE, FALSE>>
    /\ retrieved = 1
    /\ report_num = 2
    /\ idx = 3
    /\ work_queue = <<>>
    /\ task = <<"done", "done">>
    /\ loaded = <<0, 0>>
    /\ extra_calls = 0
    /\ archive_calls = 0
    /\ closed = {}
    /\ exit_status = -1
    /\ interrupted = FALSE
    /\ conn_failed = {}
    /\ clusters = <<>>
    /\ probed = <<>>
    /\ error = ""
    /\ sos_cmd = <<>>
    /\ members = <<>>
    /\ pc = "archive"

NextArchive == create_sos_archive \/ cleanup \/ close_connections

SpecArchive == InitArchive /\ [][NextArchive]_vars

\* C17: the arcnames given to tar.add() are pairwise distinct, one per file of
\* the working directory, each is <arc_name>/<name> with one separator, and the
\* two log files are stored as sos-collector.log and ui.log, not under their
\* temporary names.
C17_MembersDistinctCanonicalLogs ==
    members # <<>> =>
        /\ \A i, j \in DOMAIN members : i # j => members[i] # members[j]
        /\ Len(members) = Cardinality(config.dir_files)
        /\ \A i \in DOMAIN members :
               LET parts == Split(members[i], SLASH) IN
                   Len(parts) = 2 /\ parts[1] = config.arc_name
        /\ ARC_NAME \o <<SLASH>> \o LOG_NAME \in ToSet(members)
        /\ ARC_NAME \o <<SLASH>> \o UI_NAME \in ToSet(members)
        /\ ARC_NAME \o <<SLASH>> \o LOG_FILE \notin ToSet(members)
        /\ ARC_NAME \o <<SLASH>> \o UI_FILE \notin ToSet(members)

\* the collected-report naming pattern: sosreport-<node>.tar.<compression>
IsReportName(f) == f[1] = "sosreport-" /\ "tar" \in ToSet(f)

\* C18: once the archive is written and cleanup() has run, a working directory
\* this run created is gone with all its files; a user-supplied one has lost
\* exactly its sosreport tarballs, and cleanup() returned normally.
C18_CleanupRemovesOnlyReports ==
    (members # <<>> /\ pc # "cleanup") =>
        /\ pc \in {"close", "done"}
        /\ tmp_files = IF config.tmp_dir_created THEN {}
                       ELSE {f \in config.dir_files : ~IsReportName(f)}

----------------------------------------------------------------------------
(* Claim about the client list of collect() (checked under Spec) *)

\* C20: with a connected master, once collect() is in its connection loop
\* (idx >= 1) or past it, client_list holds the master once, as its
\* first entry, and no other entry is the master's address or hostname; the
\* clients are pairwise distinct, there is never more than one task per client
\* and, once pool.map() has submitted them, exactly one per client.
C20_MasterOnceClientsDistinct ==
    /\ (master.connected /\ idx >= 1) =>
           /\ client_list # <<>>
           /\ client_list[1] = master.address
           /\ \A k \in DOMAIN client_list :
                  k > 1 => (client_list[k] # master.address
                            /\ client_list[k] # master.hostname)
    /\ \A i, j \in DOMAIN client_list : i # j => client_list[i] # client_list[j]
    /\ Len(task) <= Len(client_list)
    /\ pc \in {"shutdown", "extra", "summary", "done"} => Len(task) = Len(client_list)

C20_MasterNamedInNodeList ==
    /\ pc = "summary"
    /\ master.connected
    /\ \E n \in ToSet(node_list) : n = master.address \/ n = master.hostname
    /\ Len(client_list) >= 2
    /\ Len(task) = Len(client_list)

----------------------------------------------------------------------------
(* Claim about the tally and the archive step (checked under Spec) *)

\* C21: when collect() has reached its summary and some client's collection
\* succeeded, self.retrieved is at least 1 and at most the number of connected
\* clients, whatever the interleaving of the "+= 1" steps; such a run that
\* ended in done or in _exit has called create_sos_archive() once, so it was
\* not ended by the "no sosreports were collected" exit.
C21_SuccessReachesArchive ==
    /\ retrieved <= Len(client_list)
    /\ (Summarised /\ Succeeded # {}) => retrieved >= 1
    /\ (pc \in {"done", "exited"} /\ Succeeded # {}) => archive_calls = 1

C21_LostUpdateStillArchived ==
    /\ pc = "done"
    /\ Cardinality(Succeeded) = 2
    /\ retrieved = 1
    /\ archive_calls = 1

----------------------------------------------------------------------------
(* Claim about configure_sos_cmd (checked under SpecSetup) *)

\* the pieces of the prepared command that modify_sos_cmd() added
Adjustments == {k \in DOMAIN sos_cmd : sos_cmd[k][1] = "modify"}

\* C22: the prepared command holds the profile's adjustment at most once, and
\* not at all when a manual option line was given.
C22_AdjustmentAtMostOnce ==
    pc = "ready" =>
        /\ Cardinality(Adjustments) <= 1
        /\ config.sos_opt_line # Blank => Adjustments = {}

====
